---- MODULE Spec2Model ----
(***************************************************************************)
(* Model of models.py: the NearEarthObject and CloseApproach entity        *)
(* classes, their constructors' coercion rules and their derived           *)
(* representations (fullname, full_name, time_str, str, repr, serialize).  *)
(*                                                                         *)
(* Python values are tagged records; the tag t is the Python type.  The    *)
(* field names of the different tags differ, so values of different types  *)
(* compare unequal, as in Python.                                          *)
(*                                                                         *)
(* A float is a fixed-point number: v counts units of 1/Scale.  The raw    *)
(* numeric strings of the model all have at most four decimals.            *)
(***************************************************************************)
EXTENDS Integers, Sequences, FiniteSets, TLC

VARIABLES neo, neoInfo, ca, caInfo, result

vars == <<neo, neoInfo, ca, caInfo, result>>

(***************************************************************************)
(* Bounds: how many of the numeric raw strings of NumericTable the         *)
(* constructors are tried on.                                              *)
(***************************************************************************)
MaxNumeric == 1

(***************************************************************************)
(* Python values.                                                          *)
(***************************************************************************)
Scale == 10 * 1000

None == [t |-> "NoneType"]

Str(s) == [t |-> "str", s |-> s]

Float(v) == [t |-> "float", nan |-> FALSE, v |-> v]

NaN == [t |-> "float", nan |-> TRUE, v |-> 0]

Datetime(y, mo, d, h, mi) ==
    [t |-> "datetime", year |-> y, month |-> mo, day |-> d, hour |-> h, minute |-> mi]

\* A name that is not bound to an object (no entity was produced).
NoObject == [t |-> "unbound"]

\* Handles: the references CloseApproach.neo and NearEarthObject.approaches hold.
NeoRef == [t |-> "ref", to |-> "NearEarthObject"]

CaRef == [t |-> "ref", to |-> "CloseApproach"]

\* The outcome of a call: a returned value or a raised exception.
Return(v) == [raised |-> FALSE, exc |-> "", ret |-> v]

Raise(e) == [raised |-> TRUE, exc |-> e, ret |-> None]

(***************************************************************************)
(* Python built-ins used by models.py.                                     *)
(***************************************************************************)
\* str(x), for the two kinds of value the constructors pass to it.
PyStr(x) == IF x.t = "NoneType" THEN Str("None") ELSE x

\* x == '' : a float (NaN included) never equals a string.
IsEmptyStr(x) == x.t = "str" /\ x.s = ""

\* info.get(key, default) on the keyword mapping; raw values are strings.
Get(info, key, default) ==
    IF key \in DOMAIN info THEN Str(info[key]) ELSE default

\* The numeric raw strings of the model and the floats they denote.
NumericTable ==
    << [s |-> "16.84",  v |-> 168400],
       [s |-> "0.0966", v |-> 966],
       [s |-> "5.59",   v |-> 55900],
       [s |-> "-1.006", v |-> -10060] >>

NumericStrings == {NumericTable[i].s : i \in DOMAIN NumericTable}

NumericValue(s) ==
    LET i == CHOOSE j \in DOMAIN NumericTable : NumericTable[j].s = s
    IN  NumericTable[i].v

\* float(x): a float is returned as is, a numeric string is parsed, any other
\* string raises ValueError, None raises TypeError.
PyFloat(x) ==
    IF x.t = "float" THEN Return(x)
    ELSE IF x.t = "str"
         THEN IF x.s \in NumericStrings
              THEN Return(Float(NumericValue(x.s)))
              ELSE Raise("ValueError")
         ELSE Raise("TypeError")

\* math.isnan(x): defined on floats only.
IsNan(x) == IF x.t = "float" THEN Return(x.nan) ELSE Raise("TypeError")

DigitChars == <<"0", "1", "2", "3", "4", "5", "6", "7", "8", "9">>

RECURSIVE NatToStr(_)
NatToStr(n) ==
    IF n < 10 THEN DigitChars[n + 1]
    ELSE NatToStr(n \div 10) \o DigitChars[(n % 10) + 1]

RECURSIVE ZeroPad(_, _)
\* n in decimal, left-padded with zeros to at least width characters.
ZeroPad(n, width) ==
    IF width <= 1 THEN NatToStr(n)
    ELSE IF n < 10 ^ (width - 1)
         THEN "0" \o ZeroPad(n, width - 1)
         ELSE NatToStr(n)

Abs(n) == IF n < 0 THEN -n ELSE n

\* |v|/Scale rounded to digits decimals, in units of 10^-digits (half to even).
RoundTo(v, digits) ==
    LET num == Abs(v) * (10 ^ digits)
        q   == num \div Scale
        r   == num % Scale
    IN  IF 2 * r > Scale THEN q + 1
        ELSE IF 2 * r = Scale THEN q + (q % 2)
        ELSE q

\* f"{x:.<digits>f}": "nan" for the sentinel; raises on a value that is no float.
FormatFixed(x, digits) ==
    IF x.t = "NoneType" THEN Raise("TypeError")
    ELSE IF x.t # "float" THEN Raise("ValueError")
    ELSE IF x.nan THEN Return("nan")
    ELSE LET q == RoundTo(x.v, digits)
         IN  Return((IF x.v < 0 THEN "-" ELSE "")
                    \o NatToStr(q \div (10 ^ digits))
                    \o "." \o ZeroPad(q % (10 ^ digits), digits))

\* f"{x!r}" for a string or None, and for a bool.
Repr(x) == IF x.t = "NoneType" THEN "None" ELSE "'" \o x.s \o "'"

ReprBool(b) == IF b THEN "True" ELSE "False"

(***************************************************************************)
(* helpers.cd_to_datetime and helpers.datetime_to_str: the date parsing    *)
(* and formatting collaborators.  A calendar date has the fixed format     *)
(* "YYYY-Mon-DD hh:mm"; a string of any other shape is a parse failure.    *)
(***************************************************************************)
CalendarTable ==
    << [s |-> "1900-Dec-27 01:30", dt |-> Datetime(1900, 12, 27, 1, 30)] >>

CalendarStrings == {CalendarTable[i].s : i \in DOMAIN CalendarTable}

cd_to_datetime(cd) ==
    IF cd.t = "str" /\ cd.s \in CalendarStrings
    THEN Return((CHOOSE e \in {CalendarTable[i] : i \in DOMAIN CalendarTable} :
                    e.s = cd.s).dt)
    ELSE Raise("ValueError")

datetime_to_str(dt) ==
    IF dt.t # "datetime" THEN Raise("AttributeError")
    ELSE Return(ZeroPad(dt.year, 4) \o "-" \o ZeroPad(dt.month, 2) \o "-"
                \o ZeroPad(dt.day, 2) \o " " \o ZeroPad(dt.hour, 2) \o ":"
                \o ZeroPad(dt.minute, 2))

(***************************************************************************)
(* The coercions both constructors apply to a raw field.                   *)
(***************************************************************************)
\* Mutant: the empty string is kept instead of becoming None.
CoerceStrKeepEmpty(raw) == PyStr(raw)

\* x = str(info.get(key, None)); if x == '': x = None
CoerceStr(raw) ==
    LET x == PyStr(raw)
    IN  IF IsEmptyStr(x) THEN None ELSE x

\* Mutant: a string that does not parse falls back to the sentinel.
CoerceFloatSwallow(raw) ==
    IF IsEmptyStr(raw) THEN Return(NaN)
    ELSE IF PyFloat(raw).raised THEN Return(NaN)
    ELSE PyFloat(raw)

\* x = info.get(key, float('nan')); x = float('nan') if x == '' else float(x)
CoerceFloat(raw) ==
    IF IsEmptyStr(raw) THEN Return(NaN) ELSE PyFloat(raw)

(***************************************************************************)
(* class NearEarthObject.                                                  *)
(*                                                                         *)
(* A method call yields [self, out]: the receiver after the call and the   *)
(* call's outcome.                                                         *)
(***************************************************************************)
Call(self, out) == [self |-> self, out |-> out]

\* NearEarthObject(**info): the constructed object, or the exception raised.
NearEarthObject__init__(info) ==
    LET designation == CoerceStr(Get(info, "pdes", None))
        name        == CoerceStr(Get(info, "name", None))
        diameter    == CoerceFloat(Get(info, "diameter", NaN))
        pha         == Get(info, "pha", Str("None"))
    IN  IF diameter.raised THEN diameter
        ELSE Return([t             |-> "NearEarthObject",
                     designation   |-> designation,
                     name          |-> name,
                     diameter      |-> diameter.ret,
                     hazardous     |-> (pha = Str("Y")),
                     hazardous_str |-> pha.s,
                     approaches    |-> <<>>])

\* Mutant: the name is appended also when it is unset.
fullnameAlwaysName(self) ==
    IF self.designation = None THEN Call(self, Return("None"))
    ELSE Call(self, Return(self.designation.s \o " ("
                           \o (IF self.name = None THEN "None" ELSE self.name.s)
                           \o ")"))

\* Mutant: the full name is built in place, in self.designation.
fullnameInPlace(self) ==
    IF self.designation # None /\ self.name # None
    THEN LET fn == self.designation.s \o " (" \o self.name.s \o ")"
         IN  Call([self EXCEPT !.designation = Str(fn)], Return(fn))
    ELSE IF self.designation = None
         THEN Call(self, Return("None"))
         ELSE Call(self, Return(self.designation.s))

fullname(self) ==
    LET fullname_str == self.designation
    IN  IF fullname_str # None /\ self.name # None
        THEN Call(self, Return(fullname_str.s \o " (" \o self.name.s \o ")"))
        ELSE IF fullname_str = None
             THEN Call(self, Return("None"))
             ELSE Call(self, Return(fullname_str.s))

\* Mutant: the placeholder branch is lost.
hazard_strTwoWay(self) == IF self.hazardous THEN "is" ELSE "is not"

\* The hazard phrase of __str__.
hazard_str(self) ==
    IF self.hazardous_str = "None" THEN "[is/is not]"
    ELSE IF self.hazardous THEN "is"
    ELSE "is not"

\* The diameter phrase of __str__.
diameter_str(self) ==
    LET nan == IsNan(self.diameter)
    IN  IF nan.raised THEN nan
        ELSE IF nan.ret THEN Return("undefined")
        ELSE FormatFixed(self.diameter, 3)

NearEarthObject__str__(self) ==
    LET d  == diameter_str(self)
        fn == fullname(self)
    IN  IF d.raised THEN Call(self, d)
        ELSE IF fn.out.raised THEN fn
        ELSE Call(fn.self,
                  Return("NEO " \o fn.out.ret \o " has a diameter of " \o d.ret
                         \o " km and " \o hazard_str(self)
                         \o " potentially hazardous"))

NearEarthObject__repr__(self) ==
    LET d == FormatFixed(self.diameter, 3)
    IN  IF d.raised THEN Call(self, d)
        ELSE Call(self,
                  Return("NearEarthObject(designation=" \o Repr(self.designation)
                         \o ", name=" \o Repr(self.name)
                         \o ", diameter=" \o d.ret
                         \o ", hazardous=" \o ReprBool(self.hazardous) \o ")"))

\* Mutant: the bare name is emitted under the name key.
NearEarthObject_serializeBareName(self) ==
    Call(self,
         Return([designation           |-> self.designation,
                 name                  |-> IF self.name = None THEN "None"
                                           ELSE self.name.s,
                 diameter_km           |-> self.diameter,
                 potentially_hazardous |-> self.hazardous]))

NearEarthObject_serialize(self) ==
    LET fn == fullname(self)
    IN  IF fn.out.raised THEN fn
        ELSE Call(fn.self,
                  Return([designation           |-> self.designation,
                          name                  |-> fn.out.ret,
                          diameter_km           |-> self.diameter,
                          potentially_hazardous |-> self.hazardous]))

(***************************************************************************)
(* class CloseApproach.                                                    *)
(***************************************************************************)
\* The object a handle refers to.
Deref(ref) == IF ref.to = "NearEarthObject" THEN neo ELSE ca

\* CloseApproach(**info): the constructed object or the exception raised, and
\* the arguments of the calls made to cd_to_datetime.
CloseApproach__init__(info) ==
    LET designation == CoerceStr(Get(info, "des", None))
        cd          == CoerceStr(Get(info, "cd", None))
        time        == IF cd # None THEN cd_to_datetime(cd) ELSE Return(None)
        parsed      == IF cd # None THEN <<cd.s>> ELSE <<>>
        distance    == CoerceFloat(Get(info, "dist", NaN))
        velocity    == CoerceFloat(Get(info, "v_rel", NaN))
    IN  [parsed |-> parsed,
         out    |-> IF time.raised THEN time
                    ELSE IF distance.raised THEN distance
                    ELSE IF velocity.raised THEN velocity
                    ELSE Return([t            |-> "CloseApproach",
                                 _designation |-> designation,
                                 time         |-> time.ret,
                                 distance     |-> distance.ret,
                                 velocity     |-> velocity.ret,
                                 neo          |-> None])]

\* Mutant: the null check is lost.
time_strUnguarded(self) == Call(self, datetime_to_str(self.time))

time_str(self) ==
    IF self.time # None
    THEN Call(self, datetime_to_str(self.time))
    ELSE Call(self, Return("Undefined"))

\* Mutant: the link to the NEO is ignored.
full_nameIgnoreNeo(self) ==
    IF self._designation = None
    THEN Call(self, Return("None"))
    ELSE Call(self, Return(self._designation.s))

full_name(self) ==
    IF self.neo = None
    THEN IF self._designation = None
         THEN Call(self, Return("None"))
         ELSE Call(self, Return(self._designation.s))
    ELSE Call(self, fullname(Deref(self.neo)).out)

CloseApproach__str__(self) ==
    LET ts == time_str(self)
        fn == full_name(self)
        d  == FormatFixed(self.distance, 2)
        v  == FormatFixed(self.velocity, 2)
    IN  IF ts.out.raised THEN ts
        ELSE IF fn.out.raised THEN fn
        ELSE IF d.raised THEN Call(self, d)
        ELSE IF v.raised THEN Call(self, v)
        ELSE Call(self,
                  Return("At " \o ts.out.ret \o ", '" \o fn.out.ret
                         \o "' approaches Earth at a distance of " \o d.ret
                         \o " au and a velocity of " \o v.ret \o " km/s."))

CloseApproach__repr__(self) ==
    LET ts == time_str(self)
        d  == FormatFixed(self.distance, 2)
        v  == FormatFixed(self.velocity, 2)
        n  == IF self.neo = None THEN Return("None")
              ELSE NearEarthObject__repr__(Deref(self.neo)).out
    IN  IF ts.out.raised THEN ts
        ELSE IF d.raised THEN Call(self, d)
        ELSE IF v.raised THEN Call(self, v)
        ELSE IF n.raised THEN Call(self, n)
        ELSE Call(self,
                  Return("CloseApproach(time='" \o ts.out.ret
                         \o "', distance=" \o d.ret
                         \o ", velocity=" \o v.ret
                         \o ", neo=" \o n.ret \o ")"))

CloseApproach_serialize(self) ==
    LET ts == time_str(self)
    IN  IF ts.out.raised THEN ts
        ELSE Call(self,
                  Return([datetime_utc  |-> ts.out.ret,
                          distance_au   |-> self.distance,
                          velocity_km_s |-> self.velocity]))

(***************************************************************************)
(* The raw records the constructors are tried on: every mapping from a     *)
(* subset of the recognised keys to the raw strings of each key.  A key    *)
(* outside the mapping's domain is a missing field.                        *)
(***************************************************************************)
Min(a, b) == IF a < b THEN a ELSE b

NumericRaw == {NumericTable[i].s : i \in 1..Min(MaxNumeric, Len(NumericTable))}

NeoRaw ==
    [pdes     |-> {"", "433"},
     name     |-> {"", "Eros"},
     diameter |-> {"", "abc"} \cup NumericRaw,
     pha      |-> {"Y", "N", "None"}]

CaRaw ==
    [des   |-> {"", "433"},
     cd    |-> {"", "1900-Dec-27 01:30"},
     dist  |-> {"", "abc"} \cup NumericRaw,
     v_rel |-> {"", "abc"} \cup NumericRaw]

Mappings(raw) ==
    UNION {{f \in [K -> UNION {raw[k] : k \in K}] : \A k \in K : f[k] \in raw[k]}
           : K \in SUBSET DOMAIN raw}

NeoInfos == Mappings(NeoRaw)

CaInfos == Mappings(CaRaw)

(***************************************************************************)
(* State: the NearEarthObject and the CloseApproach under study (NoObject  *)
(* until constructed), the raw record each was built from, and the         *)
(* outcome of the last call.                                               *)
(***************************************************************************)
Init ==
    /\ neo = NoObject
    /\ neoInfo = NoObject
    /\ ca = NoObject
    /\ caInfo = NoObject
    /\ result = [op |-> "none"]

HasNeo == neo.t = "NearEarthObject"

HasCa == ca.t = "CloseApproach"

\* The outcome of a method call, as recorded in result.
Outcome(op, out) ==
    [op |-> op, raised |-> out.raised, exc |-> out.exc, ret |-> out.ret]

NewNearEarthObject ==
    /\ ~HasNeo
    /\ \E info \in NeoInfos :
         LET r == NearEarthObject__init__(info)
         IN  /\ neo' = IF r.raised THEN NoObject ELSE r.ret
             /\ neoInfo' = IF r.raised THEN NoObject ELSE info
             /\ result' = [op |-> "NearEarthObject", info |-> info,
                           raised |-> r.raised, exc |-> r.exc]
    /\ UNCHANGED <<ca, caInfo>>

NewCloseApproach ==
    /\ ~HasCa
    /\ \E info \in CaInfos :
         LET r == CloseApproach__init__(info)
         IN  /\ ca' = IF r.out.raised THEN NoObject ELSE r.out.ret
             /\ caInfo' = IF r.out.raised THEN NoObject ELSE info
             /\ result' = [op |-> "CloseApproach", info |-> info,
                           raised |-> r.out.raised, exc |-> r.out.exc,
                           parsed |-> r.parsed]
    /\ UNCHANGED <<neo, neoInfo>>

\* The linkage step of NEODatabase: an approach whose foreign designation is
\* the NEO's designation gets the NEO as its neo and joins the NEO's approaches.
Link ==
    /\ HasNeo /\ HasCa
    /\ ca.neo = None
    /\ ca._designation = neo.designation
    /\ ca' = [ca EXCEPT !.neo = NeoRef]
    /\ neo' = [neo EXCEPT !.approaches = Append(@, CaRef)]
    /\ result' = [op |-> "link"]
    /\ UNCHANGED <<neoInfo, caInfo>>

\* A method call on the NearEarthObject.
NeoCall(op, c) ==
    /\ neo' = c.self
    /\ result' = Outcome(op, c.out)
    /\ UNCHANGED <<neoInfo, ca, caInfo>>

\* A method call on the CloseApproach.
CaCall(op, c) ==
    /\ ca' = c.self
    /\ result' = Outcome(op, c.out)
    /\ UNCHANGED <<neo, neoInfo, caInfo>>

GetFullname == HasNeo /\ NeoCall("fullname", fullname(neo))

NeoStr == HasNeo /\ NeoCall("NearEarthObject.__str__", NearEarthObject__str__(neo))

NeoRepr == HasNeo /\ NeoCall("NearEarthObject.__repr__", NearEarthObject__repr__(neo))

NeoSerialize == HasNeo /\ NeoCall("NearEarthObject.serialize", NearEarthObject_serialize(neo))

GetTimeStr == HasCa /\ CaCall("time_str", time_str(ca))

GetFullName == HasCa /\ CaCall("full_name", full_name(ca))

CaStr == HasCa /\ CaCall("CloseApproach.__str__", CloseApproach__str__(ca))

CaRepr == HasCa /\ CaCall("CloseApproach.__repr__", CloseApproach__repr__(ca))

CaSerialize == HasCa /\ CaCall("CloseApproach.serialize", CloseApproach_serialize(ca))

Next ==
    \/ NewNearEarthObject
    \/ NewCloseApproach
    \/ Link
    \/ GetFullname
    \/ NeoStr
    \/ NeoRepr
    \/ NeoSerialize
    \/ GetTimeStr
    \/ GetFullName
    \/ CaStr
    \/ CaRepr
    \/ CaSerialize

Spec == Init /\ [][Next]_vars

(***************************************************************************)
(* Vocabulary of the properties.                                           *)
(***************************************************************************)
\* The raw field is missing from the record or is the empty string.
Blank(info, key) == key \notin DOMAIN info \/ info[key] = ""

\* The raw field is present with the given value.
Has(info, key, value) == key \in DOMAIN info /\ info[key] = value

\* The raw field is a non-empty string that is no number.
Malformed(info, key) ==
    key \in DOMAIN info /\ info[key] # "" /\ info[key] \notin NumericStrings

IsFloat(x) == x.t = "float"

\* What the specification asks of a string field.
WantStr(info, key) == IF Blank(info, key) THEN None ELSE Str(info[key])

\* What the specification asks of a numeric field that is well formed.
WantFloat(info, key) ==
    IF Blank(info, key) THEN NaN ELSE Float(NumericValue(info[key]))

NeoBuilt == result.op = "NearEarthObject" /\ ~result.raised

CaBuilt == result.op = "CloseApproach" /\ ~result.raised

NeoReads ==
    {"fullname", "NearEarthObject.__str__", "NearEarthObject.__repr__",
     "NearEarthObject.serialize"}

CaReads ==
    {"time_str", "full_name", "CloseApproach.__str__", "CloseApproach.__repr__",
     "CloseApproach.serialize"}

(***************************************************************************)
(* C1.  Every string field (designation from pdes, name from name, the     *)
(* foreign designation from des) is None when the raw value is missing or  *)
(* empty, and the raw value unchanged otherwise.                           *)
(* Refuted: a missing field becomes the string "None", not None.           *)
(***************************************************************************)
C1_StringFieldsUnsetWhenBlank ==
    /\ HasNeo => /\ neo.designation = WantStr(neoInfo, "pdes")
                 /\ neo.name = WantStr(neoInfo, "name")
    /\ HasCa => ca._designation = WantStr(caInfo, "des")

(***************************************************************************)
(* C2.  When cd is missing or empty the CloseApproach is built with a null *)
(* time and cd_to_datetime is not called; it is called only for a present, *)
(* non-empty cd.                                                           *)
(* Refuted: with cd missing, cd_to_datetime is called on "None".           *)
(***************************************************************************)
C2_NoParseWhenCdBlank ==
    result.op = "CloseApproach" =>
        /\ Blank(result.info, "cd") =>
              /\ result.parsed = <<>>
              /\ ~result.raised => ca.time = None
              /\ (~Malformed(result.info, "dist") /\ ~Malformed(result.info, "v_rel"))
                     => ~result.raised
        /\ result.parsed # <<>> => ~Blank(result.info, "cd")

(***************************************************************************)
(* C3.  A numeric field (diameter, distance, velocity) is NaN when the raw *)
(* value is missing or empty and the parsed float when it is a numeric     *)
(* string; a non-empty raw value that is no number makes the constructor   *)
(* raise ValueError and produces no entity.  A numeric field of an entity  *)
(* is always a float.                                                      *)
(***************************************************************************)
C3_NumericFields ==
    /\ result.op = "NearEarthObject" =>
          IF Malformed(result.info, "diameter")
          THEN result.raised /\ result.exc = "ValueError" /\ ~HasNeo
          ELSE ~result.raised
    /\ result.op = "CloseApproach" =>
          IF Malformed(result.info, "dist") \/ Malformed(result.info, "v_rel")
          THEN result.raised /\ result.exc = "ValueError" /\ ~HasCa
          ELSE "cd" \in DOMAIN result.info => ~result.raised
    /\ HasNeo => /\ IsFloat(neo.diameter)
                 /\ neo.diameter = WantFloat(neoInfo, "diameter")
    /\ HasCa => /\ IsFloat(ca.distance) /\ IsFloat(ca.velocity)
                /\ ca.distance = WantFloat(caInfo, "dist")
                /\ ca.velocity = WantFloat(caInfo, "v_rel")

\* An entity with a parsed diameter exists, and a later constructor call has
\* failed on a malformed distance.
C3_Witness ==
    /\ HasNeo /\ Has(neoInfo, "diameter", "16.84") /\ neo.diameter = Float(168400)
    /\ result.op = "CloseApproach" /\ result.raised
    /\ Has(result.info, "dist", "abc")

(***************************************************************************)
(* C4.  fullname is "{designation} ({name})" when designation and name are *)
(* both set, designation alone when only designation is set, and the       *)
(* literal "None" when designation is unset.                               *)
(***************************************************************************)
C4_Fullname ==
    result.op = "fullname" =>
        /\ ~result.raised
        /\ (neo.designation # None /\ neo.name # None) =>
               result.ret = neo.designation.s \o " (" \o neo.name.s \o ")"
        /\ (neo.designation # None /\ neo.name = None) =>
               result.ret = neo.designation.s
        /\ neo.designation = None => result.ret = "None"

\* fullname was read on an NEO with a designation and an empty raw name.
C4_Witness ==
    /\ result.op = "fullname"
    /\ Has(neoInfo, "pdes", "433") /\ Has(neoInfo, "name", "")
    /\ result.ret = "433"

\* The sentence __str__ builds around a hazard phrase.
NeoSentence(phrase) ==
    "NEO " \o fullname(neo).out.ret \o " has a diameter of "
    \o diameter_str(neo).ret \o " km and " \o phrase \o " potentially hazardous"

(***************************************************************************)
(* C5.  hazardous is true exactly when the raw flag pha is "Y"; the hazard *)
(* phrase of str(neo) is "is" when the raw flag is "Y", "is not" when it   *)
(* is present but not "Y", and "[is/is not]" only when it is absent.       *)
(* Refuted as stated: a present raw flag "None" yields the placeholder.    *)
(***************************************************************************)
C5_HazardPhraseByRawFlag ==
    /\ HasNeo => (neo.hazardous <=> Has(neoInfo, "pha", "Y"))
    /\ result.op = "NearEarthObject.__str__" =>
          /\ ~result.raised
          /\ result.ret =
               NeoSentence(IF Has(neoInfo, "pha", "Y") THEN "is"
                           ELSE IF "pha" \in DOMAIN neoInfo THEN "is not"
                           ELSE "[is/is not]")

(***************************************************************************)
(* C5, amended.  hazardous is true exactly when the raw flag is "Y"; the   *)
(* hazard phrase is "is" when the raw flag is "Y", "[is/is not]" when the  *)
(* raw flag is absent or is the literal string "None", and "is not" for    *)
(* every other present raw flag.                                           *)
(***************************************************************************)
C5_HazardPhraseByStoredFlag ==
    /\ HasNeo => /\ neo.hazardous <=> Has(neoInfo, "pha", "Y")
                 /\ neo.hazardous_str =
                      (IF "pha" \in DOMAIN neoInfo THEN neoInfo["pha"] ELSE "None")
    /\ result.op = "NearEarthObject.__str__" =>
          /\ ~result.raised
          /\ result.ret =
               NeoSentence(IF Has(neoInfo, "pha", "Y") THEN "is"
                           ELSE IF "pha" \notin DOMAIN neoInfo
                                   \/ Has(neoInfo, "pha", "None")
                                THEN "[is/is not]"
                           ELSE "is not")

\* str was taken of an NEO whose raw flag is the present string "None".
C5_Witness ==
    /\ result.op = "NearEarthObject.__str__"
    /\ Has(neoInfo, "pha", "None")
    /\ Has(neoInfo, "pdes", "433") /\ Has(neoInfo, "name", "Eros")
    /\ Has(neoInfo, "diameter", "16.84")
    /\ result.ret = "NEO 433 (Eros) has a diameter of 16.840 km and "
                    \o "[is/is not] potentially hazardous"

(***************************************************************************)
(* C6.  full_name is the linked NEO's fullname when neo is set, otherwise  *)
(* the foreign designation when that is set, otherwise the literal "None". *)
(* For the approach built from des "433": "433" before it is linked to the *)
(* NEO built from pdes "433" and name "Eros", "433 (Eros)" after.          *)
(***************************************************************************)
C6_FullName ==
    result.op = "full_name" =>
        /\ ~result.raised
        /\ ca.neo # None => result.ret = fullname(neo).out.ret
        /\ (ca.neo = None /\ ca._designation # None) =>
               result.ret = ca._designation.s
        /\ (ca.neo = None /\ ca._designation = None) => result.ret = "None"
        /\ (Has(caInfo, "des", "433") /\ ca.neo = None) => result.ret = "433"
        /\ ( /\ Has(caInfo, "des", "433") /\ ca.neo # None
             /\ Has(neoInfo, "pdes", "433") /\ Has(neoInfo, "name", "Eros") )
               => result.ret = "433 (Eros)"

\* full_name was read on the linked approach of the example.
C6_Witness ==
    /\ result.op = "full_name"
    /\ HasNeo /\ neo.approaches = <<CaRef>> /\ ca.neo = NeoRef
    /\ Has(caInfo, "des", "433")
    /\ result.ret = "433 (Eros)"

(***************************************************************************)
(* C7.  The designation of a constructed NearEarthObject is never the      *)
(* empty string: it is a non-empty string or None.                         *)
(***************************************************************************)
C7_DesignationNeverEmpty ==
    HasNeo => \/ neo.designation = None
              \/ neo.designation.t = "str" /\ neo.designation.s # ""

\* An NEO was built from an empty raw pdes.
C7_Witness == HasNeo /\ Has(neoInfo, "pdes", "") /\ neo.designation = None

C9_SentinelsFormat ==
    /\ (result.op \in NeoReads /\ neo.diameter = NaN) =>
          /\ ~result.raised
          /\ result.op = "NearEarthObject.__str__" =>
                result.ret = "NEO " \o fullname(neo).out.ret
                             \o " has a diameter of undefined km and "
                             \o hazard_str(neo) \o " potentially hazardous"
    /\ ( /\ result.op \in CaReads
         /\ (ca.distance = NaN \/ ca.velocity = NaN \/ ca.time = None) ) =>
          /\ ~result.raised
          /\ (result.op = "time_str" /\ ca.time = None) => result.ret = "Undefined"

\* str was taken of an approach with null time and unknown distance and velocity.
C9_Witness ==
    /\ result.op = "CloseApproach.__str__"
    /\ ca.time = None /\ ca.distance = NaN /\ ca.velocity = NaN
    /\ ~result.raised

(***************************************************************************)
(* C10.  Right after construction a NearEarthObject's approaches are empty *)
(* and a CloseApproach's neo is null.  No call of fullname, full_name,     *)
(* time_str, str, repr or serialize changes an attribute of an entity:     *)
(* approaches and neo change only in the linkage step, and every other     *)
(* attribute keeps its constructed value.                                  *)
(***************************************************************************)
C10_Step ==
    /\ NeoBuilt' => neo'.approaches = <<>>
    /\ CaBuilt' => ca'.neo = None
    /\ result'.op \in NeoReads \cup CaReads => (neo' = neo /\ ca' = ca)
    /\ (HasNeo /\ neo' # neo) =>
          /\ result'.op = "link"
          /\ neo' = [neo EXCEPT !.approaches = neo'.approaches]
    /\ (HasCa /\ ca' # ca) =>
          /\ result'.op = "link"
          /\ ca' = [ca EXCEPT !.neo = ca'.neo]

C10_Frame == [][C10_Step]_vars

\* A method was called on the NEO after it was linked to the approach.
C10_Witness ==
    /\ result.op = "NearEarthObject.__str__"
    /\ neo.approaches = <<CaRef>> /\ ca.neo = NeoRef
    /\ neo.designation = Str("433") /\ neo.name = Str("Eros")

====
